---- MODULE Spec2Model ----
(***************************************************************************)
(* Model of crates/core/src/walkdir.rs: walk_dir_stream bridges the        *)
(* worker threads of the ignore-aware parallel scanner (producer) with a   *)
(* single asynchronous consumer task through two bounded channels, a       *)
(* shared abort flag and a shared set of pruned prefixes.                  *)
(***************************************************************************)
EXTENDS Integers, Sequences, FiniteSets, TLC

(***************************************************************************)
(* Bounds of the explored option space.                                    *)
(***************************************************************************)
MaxConcurrencyBound == 2
MaxDepthBound == 1
ChainLen == 22

(***************************************************************************)
(* Program constants.                                                      *)
(***************************************************************************)
USIZE_MAX == 1000000
OUT_FACTOR == 4
IN_FACTOR == 16

(***************************************************************************)
(* The file systems a walk is run on.  A path is the sequence of its       *)
(* components; the walk root is the one-component path <<"r">>.  Nodes is  *)
(* the tree below; ChainNodes is a chain of nested directories r/d/d/...,  *)
(* long enough to fill both channels; LinkNodes is a tree with a symbolic  *)
(* link to a directory, holding the entry the scanner reaches through the  *)
(* link under the link's own path; {root_abs} is an empty root directory   *)
(* and {} a root that does not exist.                                      *)
(*   r/a      file                                                         *)
(*   r/b      directory                                                    *)
(*   r/b/c    file                                                         *)
(*   r/b/d    directory (empty)                                            *)
(*   r/.h     file with a hidden name                                      *)
(*   r/ig     file matched by a rule of an ignore file                     *)
(***************************************************************************)
root_abs == <<"r">>

Nodes ==
  { <<"r">>, <<"r", "a">>, <<"r", "b">>, <<"r", "b", "c">>,
    <<"r", "b", "d">>,
    <<"r", ".h">>, <<"r", "ig">> }

\* The directory ChainLen levels below the root is empty.
ChainPath(k) == root_abs \o [i \in 1 .. k |-> "d"]

ChainNodes == { ChainPath(k) : k \in 0 .. ChainLen }

\*   r/t      directory
\*   r/t/x    file
\*   r/l      symbolic link to r/t
\*   r/l/x    the file r/t/x as reached through r/l
LinkNodes ==
  { <<"r">>, <<"r", "t">>, <<"r", "t", "x">>, <<"r", "l">>, <<"r", "l", "x">> }

\* The entry itself is a directory (a symbolic link is not).
IsDir(p) ==
  p \in { <<"r">>, <<"r", "b">>, <<"r", "b", "d">>, <<"r", "t">> } \cup ChainNodes

\* The entry is a symbolic link whose target is a directory.
IsSymlinkToDir(p) == p \in { <<"r", "l">> }

HiddenName(p) == p \in { <<"r", ".h">> }

IgnoreRuleMatches(p) == p \in { <<"r", "ig">> }

\* Path::starts_with: component-wise prefix, a path starts with itself.
StartsWith(path, base) ==
  /\ Len(base) <= Len(path)
  /\ SubSeq(path, 1, Len(base)) = base

\* Path::strip_prefix(root).unwrap_or(abs)
RelPath(abs) ==
  IF StartsWith(abs, root_abs)
  THEN SubSeq(abs, Len(root_abs) + 1, Len(abs))
  ELSE abs

\* DirEntry::depth of the scanner: the root has depth 0.
Depth(p) == Len(p) - Len(root_abs)

\* read_dir: the directory's immediate children in the file system tree.
ReadDir(tree, p) == { q \in tree : Len(q) = Len(p) + 1 /\ StartsWith(q, p) }

(***************************************************************************)
(* WalkOptions and the option normalisation of walk_dir_stream.            *)
(***************************************************************************)
DefaultOptions ==
  [ depth |-> USIZE_MAX, include_hidden |-> TRUE,
    parallelize_recursion |-> TRUE, max_concurrency |-> 8 ]

OptionSpace ==
  [ depth : (0 .. MaxDepthBound) \cup {USIZE_MAX},
    include_hidden : BOOLEAN,
    parallelize_recursion : BOOLEAN,
    max_concurrency : 0 .. MaxConcurrencyBound ]

\* Mutant: the options are used as given.
NormaliseNone(o) == o

\* if opts.max_concurrency == 0 { opts.max_concurrency = 1; }
Normalise(o) ==
  IF o.max_concurrency = 0 THEN [o EXCEPT !.max_concurrency = 1] ELSE o

\* Option<usize> as a set: None is {}, Some(d) is {d}.
MaxDepthOpt(o) == IF o.depth = USIZE_MAX THEN {} ELSE {o.depth}

Threads(o) == IF o.parallelize_recursion THEN o.max_concurrency ELSE 1

OutCapacity(o) == o.max_concurrency * OUT_FACTOR

\* Mutant: the path channel takes one path more.
InCapacityPlusOne(o) == o.max_concurrency * IN_FACTOR + 1

InCapacity(o) == o.max_concurrency * IN_FACTOR

(***************************************************************************)
(* The WalkBuilder call chain.  Each setter overwrites one field;          *)
(* standard_filters(yes) overwrites hidden, parents, ignore and the three  *)
(* git toggles together.                                                   *)
(***************************************************************************)
WalkBuilderNew ==
  [ hidden |-> TRUE, parents |-> TRUE, ignore |-> TRUE, git_ignore |-> TRUE,
    git_global |-> TRUE, git_exclude |-> TRUE, follow_links |-> FALSE,
    max_depth |-> {}, threads |-> 0 ]

StandardFilters(b, yes) ==
  [ b EXCEPT !.hidden = yes, !.parents = yes, !.ignore = yes,
             !.git_ignore = yes, !.git_global = yes, !.git_exclude = yes ]

BuildWalker(o) ==
  LET b1 == [WalkBuilderNew EXCEPT !.git_ignore = TRUE]
      b2 == [b1 EXCEPT !.git_global = TRUE]
      b3 == [b2 EXCEPT !.git_exclude = TRUE]
      b4 == [b3 EXCEPT !.parents = TRUE]
      b5 == [b4 EXCEPT !.follow_links = TRUE]
      b6 == [b5 EXCEPT !.hidden = ~o.include_hidden]
      b7 == StandardFilters(b6, TRUE)
      b8 == [b7 EXCEPT !.max_depth = MaxDepthOpt(o)]
  IN  [b8 EXCEPT !.threads = Threads(o)]

\* The scanner's filter on a directory's child: hidden names when the
\* hidden filter is on, ignore-file matches when the ignore filter is on.
ShouldSkipEntry(b, p) ==
  \/ b.hidden /\ HiddenName(p)
  \/ b.ignore /\ IgnoreRuleMatches(p)

\* The scanner's test for descending into an entry: with follow_links it
\* looks at the target of a symbolic link.
ScannerIsDir(b, p) == IsDir(p) \/ (b.follow_links /\ IsSymlinkToDir(p))

\* The children the scanner schedules after visiting p at its depth.
GenerateWork(tree, b, p) ==
  IF /\ ScannerIsDir(b, p)
     /\ ~(\E max \in b.max_depth : Depth(p) >= max)
  THEN { q \in ReadDir(tree, p) : ~ShouldSkipEntry(b, q) }
  ELSE {}

(***************************************************************************)
(* State of one walk.                                                      *)
(*   fs            the file system tree the walk runs on                   *)
(*   lstat_fails   the entries whose metadata lookup fails                 *)
(*   cb_allowed    the results the caller's callback may return            *)
(*   opts          the WalkOptions the walk was started with               *)
(*   stack         the scanner's pending work (entries scheduled, not yet  *)
(*                 visited); the worker threads take from it in any order  *)
(*   quit_now      the scanner's shared quit signal                        *)
(*   wpc, wcur     each worker thread's position and the path it holds     *)
(*   in_chan       the path channel (in_tx -> in_rx)                       *)
(*   abort, pruned the shared abort flag and pruned-prefix set             *)
(*   cpc, ccur     the consumer task's position and the entry it handles   *)
(*   stop_by       why the consumer task ended                             *)
(*   out_chan      the output channel (out_tx -> out_rx)                   *)
(*   rx_dropped    the caller has dropped the returned stream              *)
(*   stream_closed the caller has seen the end of the stream               *)
(*   yielded       the results the caller has received, in order           *)
(*   processed     the entries passed to the callback, in order            *)
(*   active        the number of callback invocations in progress          *)
(*   returned      the results the callback has returned, each with the    *)
(*                 path and whether the metadata lookup found a directory  *)
(*   discarded     the paths the consumer dropped for a pruned prefix      *)
(*   cb_after_drop a callback invocation began after the stream was        *)
(*                 dropped                                                 *)
(*   via_walk_dir  the walk was started by walk_dir: the callback given to *)
(*                 walk_dir_stream is walk_dir's wrapper closure           *)
(*   cb_state      the state owned by the callback the caller passed in,   *)
(*                 as held by the consumer's closure                       *)
(*   cb_seen       the owned state each callback invocation started from   *)
(***************************************************************************)
VARIABLES fs, lstat_fails, cb_allowed, opts, stack, quit_now, wpc, wcur,
          in_chan, abort, pruned, cpc, ccur, stop_by, out_chan, rx_dropped, stream_closed,
          yielded, processed, active, returned, discarded, cb_after_drop,
          via_walk_dir, cb_state, cb_seen

vars == << fs, lstat_fails, cb_allowed, opts, stack, quit_now, wpc, wcur,
           in_chan, abort, pruned, cpc, ccur, stop_by, out_chan, rx_dropped, stream_closed,
           yielded, processed, active, returned, discarded, cb_after_drop,
           via_walk_dir, cb_state, cb_seen >>

\* The file system and what the caller passes to walk_dir_stream: fixed for
\* the whole walk.
inputVars == << fs, lstat_fails, cb_allowed, opts, via_walk_dir >>

scanVars == << stack, quit_now, wpc, wcur >>
callerVars == << rx_dropped, stream_closed, yielded >>
historyVars == << processed, active, returned, discarded, cb_after_drop >>

\* The state the callback value owns, and the state each invocation found.
cbVars == << cb_state, cb_seen >>

\* The options after `if opts.max_concurrency == 0 { ... = 1 }`.
nopts == Normalise(opts)

Workers == 1 .. Threads(nopts)

Walker == BuildWalker(nopts)

Decisions == {"Continue", "SkipDescend", "Abort"}

\* CbResult<T>: a decision and an optional item (output = TRUE is Some).
CbResults == [decision : Decisions, output : BOOLEAN]

\* The item a callback emits for an entry: here its relative path,
\* wrapped in Ok by the consumer.
OkItem(abs) == [ok |-> TRUE, item |-> RelPath(abs)]

\* The state the caller's callback owns when it is passed in, and what
\* handling one entry does to the state of the value that handles it: the
\* callback counts the entries it has handled.
CbOriginal == 0

Mutate(state) == state + 1

\* The state right after walk_dir_stream has returned the stream.
Started ==
  /\ stack = {root_abs}
  /\ quit_now = FALSE
  /\ wpc = [w \in 1 .. Threads(Normalise(opts)) |-> "idle"]
  /\ wcur = [w \in 1 .. Threads(Normalise(opts)) |-> << >>]
  /\ in_chan = << >>
  /\ abort = FALSE
  /\ pruned = {}
  /\ cpc = "recv"
  /\ ccur = << >>
  /\ stop_by = "none"
  /\ out_chan = << >>
  /\ rx_dropped = FALSE
  /\ stream_closed = FALSE
  /\ yielded = << >>
  /\ processed = << >>
  /\ active = 0
  /\ returned = {}
  /\ discarded = {}
  /\ cb_after_drop = FALSE
  /\ cb_state = CbOriginal
  /\ cb_seen = << >>

\* Any options, any callback; the tree, an empty root directory or a root
\* that does not exist; every metadata lookup succeeds.  The callback's
\* results are arbitrary whatever state it owns, so the walk is the same
\* with and without walk_dir's wrapper; the wrapper is explored in
\* DrainSpec.
Init ==
  /\ fs \in {Nodes, {root_abs}, {}}
  /\ lstat_fails = {}
  /\ cb_allowed = CbResults
  /\ opts \in OptionSpace
  /\ via_walk_dir = FALSE
  /\ Started

(***************************************************************************)
(* Producer: the visitor closure run by every scanner worker.              *)
(***************************************************************************)
\* guard.iter().any(|p| path.starts_with(p))
IsPruned(path, set) == \E p \in set : StartsWith(path, p)

ProducerPruneCheck(path) == IsPruned(path, pruned)

\* Mutant: the root entry is not recognised.
IsRootEntryNever(path) == FALSE

\* if path == value { return WalkState::Continue; }
IsRootEntry(path) == path = root_abs

\* The scanner hands the visitor Err instead of an entry: here for a root
\* that does not exist.
ScanError(path) == path \notin fs

\* Mutant: the visitor does not look at the abort flag.
VisitNoAbortCheck(path) ==
  IF ScanError(path) THEN "error"
  ELSE IF ProducerPruneCheck(path) THEN "skip"
  ELSE IF IsRootEntry(path) THEN "skip"
  ELSE "send"

\* The visitor up to the blocking send: "quit", "error" (Err: Continue,
\* nothing to descend into), "skip" (Continue without sending) or "send".
Visit(path) ==
  IF abort THEN "quit"
  ELSE IF ScanError(path) THEN "error"
  ELSE IF ProducerPruneCheck(path) THEN "skip"
  ELSE IF IsRootEntry(path) THEN "skip"
  ELSE "send"

\* A worker takes one scheduled entry and runs the visitor on it; when the
\* visitor returns Continue without sending, the entry's children are
\* scheduled at once.
WorkerVisit(w) ==
  /\ wpc[w] = "idle"
  /\ ~quit_now
  /\ \E e \in stack :
       LET v == Visit(e) IN
       /\ stack' = IF v = "skip"
                   THEN (stack \ {e}) \cup GenerateWork(fs, Walker, e)
                   ELSE stack \ {e}
       /\ quit_now' = (v = "quit")
       /\ wpc' = [wpc EXCEPT ![w] = CASE v = "quit" -> "done"
                                      [] v = "error" -> "idle"
                                      [] v = "skip" -> "idle"
                                      [] v = "send" -> "send"]
       /\ wcur' = [wcur EXCEPT ![w] = IF v = "send" THEN e ELSE << >>]
  /\ UNCHANGED << inputVars, in_chan, abort, pruned, cpc, ccur, stop_by, out_chan >>
  /\ UNCHANGED << callerVars, historyVars, cbVars >>

\* Mutant: the receiving end outlives the consumer loop.
InRxNeverDropped == FALSE

\* in_rx is dropped when the consumer task ends.
InRxDropped == cpc = "stopped"

\* in_tx.blocking_send(path): fails when the receiver is gone, waits while
\* the channel is full, otherwise appends; after a successful send the
\* visitor returns Continue and the scanner schedules the entry's children.
WorkerSend(w) ==
  /\ wpc[w] = "send"
  /\ IF InRxDropped
     THEN /\ quit_now' = TRUE
          /\ wpc' = [wpc EXCEPT ![w] = "done"]
          /\ UNCHANGED << in_chan, stack >>
     ELSE /\ Len(in_chan) < InCapacity(nopts)
          /\ in_chan' = Append(in_chan, wcur[w])
          /\ stack' = stack \cup GenerateWork(fs, Walker, wcur[w])
          /\ wpc' = [wpc EXCEPT ![w] = "idle"]
          /\ UNCHANGED quit_now
  /\ wcur' = [wcur EXCEPT ![w] = << >>]
  /\ UNCHANGED << inputVars, abort, pruned, cpc, ccur, stop_by, out_chan >>
  /\ UNCHANGED << callerVars, historyVars, cbVars >>

\* A worker ends when the quit signal is set or when no work is left and
\* no other worker can produce any.
WorkerExit(w) ==
  /\ wpc[w] = "idle"
  /\ \/ quit_now
     \/ stack = {} /\ \A v \in Workers : wpc[v] # "send"
  /\ wpc' = [wpc EXCEPT ![w] = "done"]
  /\ UNCHANGED << inputVars, stack, quit_now, wcur, in_chan, abort, pruned >>
  /\ UNCHANGED << cpc, ccur, stop_by, out_chan, callerVars, historyVars, cbVars >>

\* Mutant: an empty path channel is taken for a closed one.
InTxDroppedWhenEmpty == TRUE

\* Mutant: a clone of in_tx outlives the scan.
InTxNeverDropped == FALSE

\* walker.run has returned and every clone of in_tx is dropped.
InTxDropped == \A w \in Workers : wpc[w] = "done"

(***************************************************************************)
(* Consumer: the task spawned by walk_dir_stream.                          *)
(***************************************************************************)
\* Mutant: the consumer relies on the producer's check alone.
ConsumerPruneCheckOff(abs) == FALSE

ConsumerPruneCheck(abs) == IsPruned(abs, pruned)

\* Mutant: the next path is received while an entry is still in hand.
AtRecvOrBusy == cpc \in {"recv", "cb", "emit"}

\* The consumer is at `in_rx.recv().await`.
AtRecv == cpc = "recv"

\* Mutant: the lookup follows symbolic links like fs::metadata.
MetadataFollowingLinks(abs) ==
  IF abs \in lstat_fails THEN "err"
  ELSE IF IsDir(abs) \/ IsSymlinkToDir(abs) THEN "dir"
  ELSE "file"

\* tokio::fs::symlink_metadata(&abs): the type of the entry itself, a
\* symbolic link not followed, or an error when the lookup fails.
SymlinkMetadata(abs) ==
  IF abs \in lstat_fails THEN "err"
  ELSE IF IsSymlinkToDir(abs) THEN "symlink"
  ELSE IF IsDir(abs) THEN "dir"
  ELSE "file"

\* if let Ok(m) = ... { if m.is_dir() { ... } }
SymlinkMetadataIsDir(m) == m = "dir"

\* Mutant: the channel hands out its newest path.
RecvNewest(chan) == Len(chan)

\* in_rx.recv(): the position of the path the channel hands out, its
\* oldest.
RecvIndex(chan) == 1

Remove(chan, i) == SubSeq(chan, 1, i - 1) \o SubSeq(chan, i + 1, Len(chan))

\* Mutant: walk_dir's wrapper calls the callback it holds.
ClonePerCallNever == FALSE

\* walk_dir's wrapper runs `cb.clone()` for every entry; the closure given
\* to walk_dir_stream directly is itself the value that is called.
ClonePerCall == via_walk_dir

\* The owned state the invocation starts from: that of the value the
\* consumer's closure holds, copied by the clone or used in place.
InvokedState == cb_state

\* The owned state the consumer's closure holds after the invocation: the
\* clone is dropped with what it changed, the value called in place keeps
\* it.
StateKept == IF ClonePerCall THEN cb_state ELSE Mutate(cb_state)

ConsumerRecv ==
  /\ AtRecv
  /\ IF in_chan # << >>
     THEN LET abs == in_chan[RecvIndex(in_chan)] IN
          /\ in_chan' = Remove(in_chan, RecvIndex(in_chan))
          /\ IF abort
             THEN /\ cpc' = "exit"
                  /\ stop_by' = "abort_seen"
                  /\ UNCHANGED << ccur, historyVars, cbVars >>
             ELSE IF ConsumerPruneCheck(abs)
             THEN /\ discarded' = discarded \cup {abs}
                  /\ UNCHANGED << cpc, stop_by, ccur, processed, active >>
                  /\ UNCHANGED << returned, cb_after_drop, cbVars >>
             ELSE /\ cpc' = "cb"
                  /\ ccur' = abs
                  /\ processed' = Append(processed, abs)
                  /\ active' = active + 1
                  /\ cb_after_drop' = (cb_after_drop \/ rx_dropped)
                  /\ cb_seen' = Append(cb_seen, InvokedState)
                  /\ UNCHANGED << stop_by, returned, discarded, cb_state >>
     ELSE /\ InTxDropped
          /\ cpc' = "exit"
          /\ stop_by' = "exhausted"
          /\ UNCHANGED << in_chan, ccur, historyVars, cbVars >>
  /\ UNCHANGED << inputVars, scanVars, abort, pruned, out_chan, callerVars >>

\* Mutant: SkipDescend prunes whatever the metadata lookup says.
PrunedAfterUnchecked(abs, decision, m) ==
  IF decision = "SkipDescend" THEN pruned \cup {abs} ELSE pruned

\* The effect of `match decision` on the prune set; m is the outcome of
\* the metadata lookup of the SkipDescend arm.
PrunedAfter(abs, decision, m) ==
  IF decision = "SkipDescend" /\ SymlinkMetadataIsDir(m)
  THEN pruned \cup {abs}
  ELSE pruned

\* Mutant: a dropped stream cancels the scan like an Abort decision.
AbortAfterOrDropped(decision) == abort \/ decision = "Abort" \/ rx_dropped

AbortAfter(decision) == abort \/ decision = "Abort"

\* Mutant: the Abort arm does not leave the loop.
AfterMatchNoBreak(r) == IF r.output THEN "emit" ELSE "recv"

\* Where the consumer goes after the match: the Abort arm breaks, an
\* emitted item is sent, otherwise the loop receives again.
AfterMatch(r) ==
  IF r.decision = "Abort" THEN "exit"
  ELSE IF r.output THEN "emit"
  ELSE "recv"

\* cb(entry).await returns r; the consumer runs the match on the decision.
CallbackReturn ==
  /\ cpc = "cb"
  /\ \E r \in cb_allowed :
       LET m == IF r.decision = "SkipDescend"
                THEN SymlinkMetadata(ccur) ELSE "none" IN
         /\ returned' = returned \cup
               {[path |-> ccur, decision |-> r.decision, output |-> r.output,
                 is_dir |-> SymlinkMetadataIsDir(m)]}
         /\ pruned' = PrunedAfter(ccur, r.decision, m)
         /\ abort' = AbortAfter(r.decision)
         /\ cpc' = AfterMatch(r)
         /\ stop_by' = IF AfterMatch(r) = "exit" THEN "abort" ELSE stop_by
  /\ active' = active - 1
  /\ cb_state' = StateKept
  /\ UNCHANGED << inputVars, scanVars, in_chan, ccur, out_chan, callerVars >>
  /\ UNCHANGED << processed, discarded, cb_after_drop, cb_seen >>

\* The callback's future panics: the consumer task unwinds.
CallbackPanic ==
  /\ cpc = "cb"
  /\ cpc' = "exit"
  /\ stop_by' = "panic"
  /\ active' = active - 1
  /\ UNCHANGED << inputVars, scanVars, in_chan, abort, pruned, ccur, out_chan >>
  /\ UNCHANGED << callerVars, processed, returned, discarded, cb_after_drop >>
  /\ UNCHANGED cbVars

\* Mutant: the newest item overtakes the buffered ones.
SendOutFront(chan, item) == << item >> \o chan

\* The output channel after out_tx.send(item).
SendOut(chan, item) == Append(chan, item)

\* out_tx.send(Ok(item)).await: fails when the stream was dropped, waits
\* while the channel is full.
ConsumerEmit ==
  /\ cpc = "emit"
  /\ IF rx_dropped
     THEN /\ cpc' = "exit"
          /\ stop_by' = "disconnected"
          /\ UNCHANGED out_chan
     ELSE /\ Len(out_chan) < OutCapacity(nopts)
          /\ out_chan' = SendOut(out_chan, OkItem(ccur))
          /\ cpc' = "recv"
          /\ UNCHANGED stop_by
  /\ UNCHANGED << inputVars, scanVars, in_chan, abort, pruned, ccur >>
  /\ UNCHANGED << callerVars, historyVars, cbVars >>

\* The consumer's async block ends (loop left, or unwinding): in_rx and
\* out_tx are dropped; paths still buffered are never read.
ConsumerExit ==
  /\ cpc = "exit"
  /\ cpc' = "stopped"
  /\ UNCHANGED << inputVars, scanVars, in_chan, abort, pruned, ccur, stop_by >>
  /\ UNCHANGED << out_chan, callerVars, historyVars, cbVars >>

\* Mutant: the stream ends as soon as the output channel is empty.
OutTxDroppedEarly == TRUE

\* out_tx is dropped when the consumer task ends.
OutTxDropped == cpc = "stopped"

(***************************************************************************)
(* The caller of walk_dir_stream: polls the ReceiverStream or drops it.    *)
(***************************************************************************)
StreamNext ==
  /\ ~rx_dropped
  /\ out_chan # << >>
  /\ yielded' = Append(yielded, Head(out_chan))
  /\ out_chan' = Tail(out_chan)
  /\ UNCHANGED << inputVars, scanVars, in_chan, abort, pruned, cpc, ccur, stop_by >>
  /\ UNCHANGED << rx_dropped, stream_closed, historyVars, cbVars >>

StreamEnd ==
  /\ ~rx_dropped
  /\ ~stream_closed
  /\ out_chan = << >>
  /\ OutTxDropped
  /\ stream_closed' = TRUE
  /\ UNCHANGED << inputVars, scanVars, in_chan, abort, pruned, cpc, ccur, stop_by >>
  /\ UNCHANGED << out_chan, rx_dropped, yielded, historyVars, cbVars >>

DropStream ==
  /\ ~rx_dropped
  /\ ~stream_closed
  /\ rx_dropped' = TRUE
  /\ out_chan' = << >>
  /\ UNCHANGED << inputVars, scanVars, in_chan, abort, pruned, cpc, ccur, stop_by >>
  /\ UNCHANGED << stream_closed, yielded, historyVars, cbVars >>

\* walk_dir: polls the stream to its end, discards the items and returns
\* the first error the stream yields, Ok(()) when the stream ends.
WalkDirResult ==
  IF \E i \in 1 .. Len(yielded) : ~yielded[i].ok THEN "Err"
  ELSE IF stream_closed THEN "Ok"
  ELSE "pending"

Next ==
  \/ \E w \in Workers : WorkerVisit(w)
  \/ \E w \in Workers : WorkerSend(w)
  \/ \E w \in Workers : WorkerExit(w)
  \/ ConsumerRecv
  \/ CallbackReturn
  \/ CallbackPanic
  \/ ConsumerEmit
  \/ ConsumerExit
  \/ StreamNext
  \/ StreamEnd
  \/ DropStream

Spec == Init /\ [][Next]_vars

(***************************************************************************)
(* A walk of the deep chain by one worker: long enough for the scanner to  *)
(* run ahead of the consumer until both channels are full.  The callback   *)
(* emits an item for every entry, or aborts.                               *)
(***************************************************************************)
DeepOptions ==
  { o \in OptionSpace : /\ o.max_concurrency = 1
                        /\ o.depth = USIZE_MAX
                        /\ o.include_hidden
                        /\ o.parallelize_recursion }

EmitOrAbort ==
  { [decision |-> "Continue", output |-> TRUE],
    [decision |-> "Abort", output |-> FALSE] }

DeepInit ==
  /\ fs = ChainNodes
  /\ lstat_fails = {}
  /\ cb_allowed = EmitOrAbort
  /\ opts \in DeepOptions
  /\ via_walk_dir = FALSE
  /\ Started

DeepSpec == DeepInit /\ [][Next]_vars

(***************************************************************************)
(* Scheduling.  The scanner workers are operating-system threads and the   *)
(* consumer is a spawned task of the runtime: each takes its next step     *)
(* whenever it can.  The callback is taken to return (or fail), and the    *)
(* caller to keep polling the stream for as long as it holds it; nothing   *)
(* obliges the caller to drop the stream.                                  *)
(***************************************************************************)
Fairness ==
  /\ \A w \in 1 .. MaxConcurrencyBound :
        /\ WF_vars(w \in Workers /\ WorkerVisit(w))
        /\ WF_vars(w \in Workers /\ WorkerSend(w))
        /\ WF_vars(w \in Workers /\ WorkerExit(w))
  /\ WF_vars(ConsumerRecv)
  /\ WF_vars(CallbackReturn \/ CallbackPanic)
  /\ WF_vars(ConsumerEmit)
  /\ WF_vars(ConsumerExit)
  /\ WF_vars(StreamNext)
  /\ WF_vars(StreamEnd)

\* The walks checked under fair scheduling: the deep chain, and the tree,
\* an empty root directory or a missing root walked by as many workers as
\* the bound allows, with a callback that emits items only with Continue.
TreeOptions ==
  { o \in OptionSpace : /\ o.max_concurrency = MaxConcurrencyBound
                        /\ o.depth = USIZE_MAX
                        /\ o.include_hidden
                        /\ o.parallelize_recursion }

ItemOnlyWithContinue ==
  { r \in CbResults : r.output => r.decision = "Continue" }

TreeInit ==
  /\ fs \in {Nodes, {root_abs}, {}}
  /\ lstat_fails = {}
  /\ cb_allowed = ItemOnlyWithContinue
  /\ opts \in TreeOptions
  /\ via_walk_dir = FALSE
  /\ Started

\* The tree walked while the metadata lookup of the directory r/b fails.
LstatInit ==
  /\ fs = Nodes
  /\ lstat_fails = { <<"r", "b">> }
  /\ cb_allowed = CbResults
  /\ opts \in TreeOptions
  /\ via_walk_dir = FALSE
  /\ Started

LstatSpec == LstatInit /\ [][Next]_vars

\* The tree with the symbolic link.
LinkInit ==
  /\ fs = LinkNodes
  /\ lstat_fails = {}
  /\ cb_allowed = CbResults
  /\ opts \in TreeOptions
  /\ via_walk_dir = FALSE
  /\ Started

LinkSpec == LinkInit /\ [][Next]_vars

\* The tree walked through walk_dir_stream directly or through walk_dir.
DrainInit ==
  /\ fs = Nodes
  /\ lstat_fails = {}
  /\ cb_allowed = CbResults
  /\ opts \in TreeOptions
  /\ via_walk_dir \in BOOLEAN
  /\ Started

DrainSpec == DrainInit /\ [][Next]_vars

FairInit == DeepInit \/ TreeInit

FairSpec == FairInit /\ [][Next]_vars /\ Fairness

(***************************************************************************)
(* Vocabulary of the properties.                                           *)
(***************************************************************************)
Range(seq) == { seq[i] : i \in 1 .. Len(seq) }

IsDescendant(path, base) == StartsWith(path, base) /\ path # base

\* Entries for which the callback returned SkipDescend and which the
\* metadata check confirms to be directories.
SkippedDirs ==
  { r.path : r \in { x \in returned :
                       x.decision = "SkipDescend" /\ x.is_dir } }

AbortReturned == \E r \in returned : r.decision = "Abort"

OnlyContinue == \A r \in returned : r.decision = "Continue"

\* A callback invocation begins in this step.
CallbackBegins == Len(processed') > Len(processed)

\* The entries below p that a scanner with configuration b reaches.
RECURSIVE Below(_, _)
Below(b, p) ==
  GenerateWork(fs, b, p) \cup
    UNION { Below(b, q) : q \in GenerateWork(fs, b, p) }

\* The non-root entries the scanner admits for the options o, computed
\* for the single-threaded configuration.
Admitted(o) == Below(BuildWalker([o EXCEPT !.parallelize_recursion = FALSE]), root_abs)

(***************************************************************************)
(* C1  Monotone pruning: once the callback has returned SkipDescend for an *)
(* entry E confirmed to be a directory, no callback invocation begins for  *)
(* a descendant of E, also not for one that was already in the path queue. *)
(***************************************************************************)
MonotonePruning ==
  [][ CallbackBegins =>
        \A E \in SkippedDirs : ~IsDescendant(processed'[Len(processed')], E) ]_vars

\* A descendant of a pruned directory sat in the path queue and the
\* consumer has dropped it.
MonotonePruningWitness ==
  \E E \in SkippedDirs : \E d \in discarded : IsDescendant(d, E)

(***************************************************************************)
(* C2  Abort boundary: after the callback returned Abort the abort flag is *)
(* set and the consumer has left its loop; no callback invocation begins   *)
(* and nothing is read from the path queue any more, whatever it holds and *)
(* whatever a worker still appends to it.                                  *)
(***************************************************************************)
IsPrefix(s, t) == Len(s) <= Len(t) /\ SubSeq(t, 1, Len(s)) = s

AbortBoundary ==
  /\ [](AbortReturned => abort /\ cpc \in {"exit", "stopped"})
  /\ [][ AbortReturned =>
          processed' = processed /\ IsPrefix(in_chan, in_chan') ]_vars

\* Abort was returned while paths were buffered and a worker was about to
\* enqueue one more.
AbortBoundaryWitness ==
  /\ AbortReturned
  /\ in_chan # << >>
  /\ \E w \in Workers : wpc[w] = "send"

(***************************************************************************)
(* C3  No loss, no duplication: no entry is passed to the callback twice;  *)
(* when the callback only returned Continue and the scan is exhausted, the *)
(* entries passed to the callback are exactly the non-root entries the     *)
(* scanner admits, whatever parallelize_recursion and the worker count.    *)
(***************************************************************************)
NoLossNoDuplication ==
  /\ Cardinality(Range(processed)) = Len(processed)
  /\ (stop_by = "exhausted" /\ OnlyContinue) => Range(processed) = Admitted(nopts)

\* A two-worker walk of the whole tree has completed with every entry
\* passed to the callback.
NoLossNoDuplicationWitness ==
  /\ stop_by = "exhausted"
  /\ OnlyContinue
  /\ Threads(nopts) = 2
  /\ Len(processed) = 4

(***************************************************************************)
(* C4  The root is never passed to the callback: it never enters the path  *)
(* queue, no worker holds it for sending, and no callback sees it.         *)
(***************************************************************************)
RootNeverDelivered ==
  /\ root_abs \notin Range(processed)
  /\ root_abs \notin Range(in_chan)
  /\ \A w \in Workers : wcur[w] # root_abs

\* The scanner has visited the root and its children went on to the
\* callback.
RootNeverDeliveredWitness ==
  /\ root_abs \notin stack
  /\ Len(processed) >= 2

(***************************************************************************)
(* C5  Whole-subtree pruning: for a directory b on which the callback      *)
(* returned SkipDescend, no descendant of b is passed to the callback,     *)
(* neither before nor after b.                                             *)
(***************************************************************************)
WholeSubtreePruning ==
  \A E \in SkippedDirs : \A x \in Range(processed) : ~IsDescendant(x, E)

\* Tree r/a, r/b/c with SkipDescend on b: the walk is over, a and b were
\* delivered and b/c was dropped.
WholeSubtreePruningWitness ==
  /\ stop_by = "exhausted"
  /\ SkippedDirs = { <<"r", "b">> }
  /\ Range(processed) = { <<"r", "a">>, <<"r", "b">> }
  /\ <<"r", "b", "c">> \in discarded

(***************************************************************************)
(* C6  Serial callbacks: at most one callback invocation is in progress,   *)
(* and the consumer takes the next path only when no invocation is in      *)
(* progress and no emission is pending.                                    *)
(***************************************************************************)
SerialCallbacks ==
  /\ [](active <= 1)
  /\ [][ Len(in_chan') < Len(in_chan) => cpc = "recv" /\ active = 0 ]_vars

\* A callback is in progress while two workers have queued further paths.
SerialCallbacksWitness ==
  /\ active = 1
  /\ Len(in_chan) >= 2
  /\ Threads(nopts) = 2

(***************************************************************************)
(* C7  Emission: once the consumer has handled a callback result that      *)
(* carries an item, with any decision, the item is in the output queue or  *)
(* has reached the caller (as long as the caller holds the stream).        *)
(***************************************************************************)
EmissionForEveryDecision ==
  \A r \in returned :
    (r.output /\ ~rx_dropped /\ ~(cpc = "emit" /\ ccur = r.path))
      => OkItem(r.path) \in Range(out_chan) \cup Range(yielded)

(***************************************************************************)
(* C8  Callback-raised errors: when the callback failed and the stream has *)
(* closed, the last result the stream yielded is that error and walk_dir   *)
(* returns it.                                                             *)
(***************************************************************************)
CallbackErrorSurfaced ==
  (stop_by = "panic" /\ stream_closed)
    => /\ yielded # << >>
       /\ ~yielded[Len(yielded)].ok
       /\ WalkDirResult = "Err"

(***************************************************************************)
(* C9  Hidden filtering follows the option: with include_hidden = false no *)
(* entry with a hidden name or matching an ignore rule is passed to the    *)
(* callback; with include_hidden = true a completed walk has passed every  *)
(* such entry within the depth bound to the callback.                      *)
(***************************************************************************)
Filtered(x) == HiddenName(x) \/ IgnoreRuleMatches(x)

HiddenFollowsOption ==
  /\ ~nopts.include_hidden => \A x \in Range(processed) : ~Filtered(x)
  /\ (nopts.include_hidden /\ stop_by = "exhausted" /\ OnlyContinue)
       => \A x \in fs :
            (Filtered(x) /\ Depth(x) >= 1 /\ Depth(x) <= nopts.depth)
              => x \in Range(processed)

(***************************************************************************)
(* C10  Depth bound: with depth = 0 exactly the immediate children of the  *)
(* root are passed to the callback, with depth = d exactly the admitted    *)
(* entries at most d levels below the root, with the default depth every   *)
(* admitted entry.                                                         *)
(***************************************************************************)
DepthLimit(o) == IF o.depth = 0 THEN 1 ELSE o.depth

WithinDepth(o) ==
  { x \in Admitted([o EXCEPT !.depth = USIZE_MAX]) : Depth(x) <= DepthLimit(o) }

DepthBound ==
  /\ Range(processed) \subseteq WithinDepth(nopts)
  /\ (stop_by = "exhausted" /\ OnlyContinue) => Range(processed) = WithinDepth(nopts)

(***************************************************************************)
(* C11  Setup errors: when the root does not exist the caller is told so   *)
(* by a terminal error, from walk_dir_stream itself or as an Err of the    *)
(* stream, instead of getting a stream that ends normally.                 *)
(***************************************************************************)
\* The value walk_dir_stream returns: Ok(ReceiverStream::new(out_rx)) on
\* its only return path.
WalkDirStreamResult == "Ok"

SetupErrorSurfaced ==
  (root_abs \notin fs)
    => \/ WalkDirStreamResult = "Err"
       \/ ~(stream_closed /\ WalkDirResult = "Ok")

(***************************************************************************)
(* C12  Output-receiver disconnection: when the send of an item finds the  *)
(* stream dropped, the consumer leaves its loop without an error; no       *)
(* callback invocation begins afterwards; a worker waiting to enqueue a    *)
(* path is released with a failed send once the consumer task has ended,   *)
(* enqueues nothing and quits; every worker ends.                          *)
(***************************************************************************)
AllWorkersDone == \A w \in Workers : wpc[w] = "done"

Disconnected == stop_by = "disconnected"

SilentDisconnection ==
  /\ [](Disconnected =>
          /\ rx_dropped
          /\ cpc \in {"exit", "stopped"}
          /\ WalkDirResult # "Err")
  /\ [][Disconnected => processed' = processed /\ active' = active]_vars
  /\ [][ (Disconnected /\ cpc = "stopped") =>
           \A w \in Workers :
             (wpc[w] = "send" /\ wpc'[w] # "send") =>
               /\ wpc'[w] = "done"
               /\ quit_now'
               /\ in_chan' = in_chan ]_vars
  /\ (Disconnected ~> AllWorkersDone)

\* The consumer task has ended on a disconnection while a worker waits on
\* the full path channel.
SilentDisconnectionWitness ==
  /\ Disconnected
  /\ cpc = "stopped"
  /\ Len(in_chan) = InCapacity(nopts)
  /\ \E w \in Workers : wpc[w] = "send"

(***************************************************************************)
(* C13  Termination: with a callback that returns and a caller that keeps  *)
(* polling, the stream closes after finitely many items unless the caller  *)
(* drops it; the workers and the consumer all end, from every state        *)
(* including those with a worker waiting on the full path channel and the  *)
(* consumer waiting on the full output channel.  An empty root directory   *)
(* gives a stream that closes with no item and no error.                   *)
(***************************************************************************)
Termination ==
  /\ <>(stream_closed \/ rx_dropped)
  /\ <>(cpc = "stopped" /\ AllWorkersDone)
  /\ [](Len(yielded) + Len(out_chan) <= Cardinality(fs))
  /\ []((fs = {root_abs} /\ stream_closed) =>
          /\ yielded = << >>
          /\ processed = << >>
          /\ WalkDirResult = "Ok")
  /\ ((fs = {root_abs} /\ ~rx_dropped) ~> (stream_closed \/ rx_dropped))

\* Both channels are full: a worker waits to enqueue and the consumer
\* waits to emit.
TerminationWitness ==
  /\ Len(in_chan) = InCapacity(nopts)
  /\ Len(out_chan) = OutCapacity(nopts)
  /\ \E w \in Workers : wpc[w] = "send"
  /\ cpc = "emit"
  /\ ~rx_dropped

(***************************************************************************)
(* C14  Drain completes with the walk: walk_dir has a result only once the *)
(* consumer task has ended, and no callback invocation begins after that;  *)
(* the items it polled are discarded, and the result is Ok(()) when the    *)
(* walk ended by exhaustion or by an Abort decision.                       *)
(***************************************************************************)
DrainCompletes ==
  /\ [](WalkDirResult # "pending" => cpc = "stopped" /\ active = 0)
  /\ [][WalkDirResult # "pending" => processed' = processed]_vars
  /\ []((stream_closed /\ stop_by \in {"exhausted", "abort", "abort_seen"})
          => WalkDirResult = "Ok")

\* The drain has ended after an Abort decision, with items polled and
\* paths left unread in the path channel.
DrainCompletesWitness ==
  /\ WalkDirResult = "Ok"
  /\ stop_by = "abort"
  /\ yielded # << >>
  /\ in_chan # << >>

(***************************************************************************)
(* C15  Emission order: the items the caller receives, followed by those   *)
(* still buffered in the output channel, are the items of the entries the  *)
(* consumer processed, in the order it processed them; when a callback     *)
(* invocation begins every earlier result has been returned and applied:   *)
(* its directory is in the prune set, its item is sent, and no Abort has   *)
(* been returned.                                                          *)
(***************************************************************************)
\* The entry's callback returned an item and the consumer has passed the
\* send of it.
ItemSent(p) ==
  /\ \E r \in returned : r.path = p /\ r.output /\ r.decision # "Abort"
  /\ ~(cpc = "emit" /\ ccur = p)

ItemsInProcessingOrder ==
  LET sent == SelectSeq(processed, ItemSent)
  IN  [i \in 1 .. Len(sent) |-> OkItem(sent[i])]

EmissionOrder ==
  /\ [](IsPrefix(yielded, ItemsInProcessingOrder))
  /\ [](~rx_dropped => yielded \o out_chan = ItemsInProcessingOrder)
  /\ [][ CallbackBegins =>
           /\ Cardinality(returned) = Len(processed)
           /\ SkippedDirs \subseteq pruned
           /\ ~AbortReturned
           /\ (~rx_dropped => yielded \o out_chan = ItemsInProcessingOrder) ]_vars

\* Two items were received and a third is buffered, of four entries
\* processed: one entry gave no item.
EmissionOrderWitness ==
  /\ Len(yielded) = 2
  /\ Len(out_chan) = 1
  /\ Len(processed) = 4
  /\ cpc = "recv"

(***************************************************************************)
(* C16  max_concurrency = 0 is max_concurrency = 1: a walk started with 0  *)
(* runs on the normalised options of the walk started with 1, and so has   *)
(* its worker count, its channel capacities and its scanner                *)
(* configuration; every step of the walk reads the options through these   *)
(* alone.                                                                  *)
(***************************************************************************)
ZeroIsOne ==
  (opts.max_concurrency = 0) =>
    LET one == Normalise([opts EXCEPT !.max_concurrency = 1]) IN
    /\ nopts = one
    /\ DOMAIN wpc = 1 .. Threads(one)
    /\ Cardinality(Workers) = 1
    /\ InCapacity(nopts) = InCapacity(one)
    /\ OutCapacity(nopts) = OutCapacity(one)
    /\ Walker = BuildWalker(one)
    /\ Len(in_chan) <= InCapacity(one)
    /\ Len(out_chan) <= OutCapacity(one)

\* A walk started with max_concurrency = 0 has delivered the whole tree
\* and its stream has closed.
ZeroIsOneWitness ==
  /\ opts.max_concurrency = 0
  /\ stop_by = "exhausted"
  /\ Len(processed) = 4
  /\ stream_closed

(***************************************************************************)
(* C17  Prune set writes: the prune set never loses a path; it changes     *)
(* only in the consumer's decision step, by the one entry in hand, when    *)
(* the callback returned SkipDescend and the metadata lookup succeeded and *)
(* found a directory.  After SkipDescend for an entry whose lookup fails   *)
(* or that is not a directory the set is unchanged, nothing fails, and the *)
(* consumer goes on as after Continue: to the send of the item or to the   *)
(* next path.                                                              *)
(***************************************************************************)
\* The result the callback returns in this step.
NewResults == returned' \ returned

PruneSetWrites ==
  /\ [][pruned \subseteq pruned']_vars
  /\ [][ pruned' # pruned =>
           /\ cpc = "cb" /\ cpc' # "cb"
           /\ pruned' = pruned \cup {ccur}
           /\ \A r \in NewResults : r.path = ccur /\ r.decision = "SkipDescend"
           /\ IsDir(ccur)
           /\ ccur \notin lstat_fails ]_vars
  /\ [][ (\E r \in NewResults :
            /\ r.decision = "SkipDescend"
            /\ (~IsDir(r.path) \/ r.path \in lstat_fails)) =>
           /\ pruned' = pruned
           /\ abort' = abort
           /\ stop_by' = stop_by
           /\ \A r \in NewResults :
                cpc' = (IF r.output THEN "emit" ELSE "recv") ]_vars
  /\ [](pruned = SkippedDirs)

\* SkipDescend was returned for r/b while its lookup failed, and for the
\* file r/a: neither is in the prune set, the entry r/b/c below r/b has
\* been passed to the callback, and the directory r/b/d is pruned.
PruneSetWritesWitness ==
  /\ \E r \in returned : r.path = <<"r", "b">> /\ r.decision = "SkipDescend"
  /\ \E r \in returned : r.path = <<"r", "a">> /\ r.decision = "SkipDescend"
  /\ <<"r", "b", "c">> \in Range(processed)
  /\ pruned = { <<"r", "b", "d">> }

(***************************************************************************)
(* C18  Scanner cancellation: while the abort flag is set, a worker that   *)
(* takes an entry to visit enqueues nothing and ends, and no worker        *)
(* accepts a new entry for sending; the path channel grows only by the     *)
(* entry a worker already held for sending, so by at most one entry per    *)
(* worker; a worker waiting to send when the consumer task has ended is    *)
(* released without enqueuing and ends; every worker ends.                 *)
(***************************************************************************)
ScannerCancellation ==
  /\ [][abort => abort']_vars
  /\ [][ abort =>
           \A w \in Workers :
             (wpc[w] = "idle" /\ wpc'[w] # "idle") =>
               /\ wpc'[w] = "done"
               /\ in_chan' = in_chan
               /\ stack' \subseteq stack ]_vars
  /\ [][ (abort /\ Len(in_chan') > Len(in_chan)) =>
           \E w \in Workers :
             /\ wpc[w] = "send" /\ wpc'[w] = "idle"
             /\ in_chan' = Append(in_chan, wcur[w]) ]_vars
  /\ [][ (abort /\ cpc = "stopped") =>
           /\ in_chan' = in_chan
           /\ \A w \in Workers : wpc[w] = "send" => wpc'[w] \in {"send", "done"} ]_vars
  /\ (abort ~> AllWorkersDone)

\* The flag is set while a worker waits to enqueue on the full path
\* channel and the consumer task has not ended yet.
ScannerCancellationWitness ==
  /\ abort
  /\ cpc = "exit"
  /\ Len(in_chan) = InCapacity(nopts)
  /\ \E w \in Workers : wpc[w] = "send"

(***************************************************************************)
(* C19  Backpressure: the path channel never holds more than 16 paths per  *)
(* unit of max_concurrency and the output channel never more than 4 items; *)
(* a worker that holds a path while the path channel is full keeps it and  *)
(* waits for as long as the consumer task lives; the path channel changes  *)
(* only by a worker appending the path it holds or by the consumer taking  *)
(* the oldest path, and a worker gives up a path unsent only when the      *)
(* consumer task has ended.                                                *)
(***************************************************************************)
Backpressure ==
  /\ [](Len(in_chan) <= IN_FACTOR * nopts.max_concurrency)
  /\ [](Len(out_chan) <= OUT_FACTOR * nopts.max_concurrency)
  /\ [][ \A w \in Workers :
           ( /\ wpc[w] = "send"
             /\ Len(in_chan) = IN_FACTOR * nopts.max_concurrency
             /\ cpc # "stopped" ) =>
             wpc'[w] = "send" /\ wcur'[w] = wcur[w] ]_vars
  /\ [][ \/ in_chan' = in_chan
         \/ in_chan # << >> /\ cpc = "recv" /\ in_chan' = Tail(in_chan)
         \/ \E w \in Workers :
              /\ wpc[w] = "send" /\ wpc'[w] = "idle"
              /\ in_chan' = Append(in_chan, wcur[w]) ]_vars
  /\ [][ \A w \in Workers :
           (wpc[w] = "send" /\ wpc'[w] # "send") =>
              \/ wpc'[w] = "idle" /\ in_chan' = Append(in_chan, wcur[w])
              \/ wpc'[w] = "done" /\ cpc = "stopped" ]_vars

\* Both channels are full while the callback runs, and the worker holds
\* one more path.
BackpressureWitness ==
  /\ Len(in_chan) = IN_FACTOR * nopts.max_concurrency
  /\ Len(out_chan) = OUT_FACTOR * nopts.max_concurrency
  /\ \E w \in Workers : wpc[w] = "send"
  /\ cpc = "cb"

(***************************************************************************)
(* C20  A dropped stream is noticed only by the send of an item: dropping  *)
(* the stream changes nothing in the consumer; the consumer ends on a      *)
(* disconnection only in its send step, for an entry whose result carried  *)
(* an item; the abort flag is set only after an Abort result; a walk whose *)
(* stream was dropped and that ran until the scan was exhausted has passed *)
(* to the callback every admitted entry outside the pruned directories.    *)
(***************************************************************************)
Unpruned == { p \in Admitted(nopts) : \A E \in SkippedDirs : ~IsDescendant(p, E) }

DropNoticedOnPush ==
  /\ [][ (rx_dropped' /\ ~rx_dropped) =>
           /\ cpc' = cpc /\ stop_by' = stop_by /\ abort' = abort
           /\ in_chan' = in_chan /\ processed' = processed
           /\ pruned' = pruned ]_vars
  /\ [][ (Disconnected' /\ ~Disconnected) => cpc = "emit" /\ rx_dropped ]_vars
  /\ [](Disconnected =>
          \E r \in returned :
            r.path = ccur /\ r.output /\ r.decision # "Abort")
  /\ [](abort => AbortReturned)
  /\ []((rx_dropped /\ cpc = "stopped") =>
          stop_by \in {"exhausted", "abort", "disconnected", "panic"})
  /\ []((rx_dropped /\ stop_by = "exhausted") => Range(processed) = Unpruned)

\* Callbacks began after the stream was dropped, none of the four results
\* carrying an item, and the walk ran until the scan was exhausted.
DropNoticedOnPushWitness ==
  /\ rx_dropped
  /\ cb_after_drop
  /\ yielded = << >>
  /\ \A r \in returned : ~r.output
  /\ stop_by = "exhausted"
  /\ Len(processed) = 4

(***************************************************************************)
(* C21  SkipDescend on a symbolic link to a directory: the scanner follows *)
(* the link and schedules the entries below it, while the directory check  *)
(* of the SkipDescend arm looks at the link itself; the link is never put  *)
(* into the prune set, and a walk that runs until the scan is exhausted    *)
(* has passed every entry reached through the link to the callback, also   *)
(* when the callback returned SkipDescend for the link.                    *)
(***************************************************************************)
ThroughLinks ==
  { p \in Admitted(nopts) : \E l \in fs : IsSymlinkToDir(l) /\ IsDescendant(p, l) }

RECURSIVE MutateTimes(_, _)
MutateTimes(state, n) ==
  IF n = 0 THEN state ELSE Mutate(MutateTimes(state, n - 1))

FreshClonePerEntry ==
  /\ Len(cb_seen) = Len(processed)
  /\ via_walk_dir =>
       /\ cb_state = CbOriginal
       /\ \A i \in 1 .. Len(cb_seen) : cb_seen[i] = CbOriginal
  /\ ~via_walk_dir =>
       \A i \in 1 .. Len(cb_seen) : cb_seen[i] = MutateTimes(CbOriginal, i - 1)

\* walk_dir has called the callback for all four entries of the tree, and
\* every invocation has returned.
FreshClonePerEntryWitness ==
  /\ via_walk_dir
  /\ Len(cb_seen) = 4
  /\ Cardinality(returned) = 4

====
